---- MODULE Spec2Model ----
(***************************************************************************)
(* State-machine model of the Boka bot's core:                             *)
(*   - RateLimiter (src/utils.py), sequential and with interleaved calls;  *)
(*   - the video catalog of Database (src/database.py) over a document     *)
(*     store with a unique index on video_id;                              *)
(*   - the user registry, the settings document, the analytics log and the *)
(*     statistics of Database.                                             *)
(* Time is an integer: seconds for the rate limiter; for the database,     *)
(* ticks of which DayLen make a day.                                       *)
(***************************************************************************)
EXTENDS Integers, Sequences, FiniteSets, TLC

\* ------------------------------------------------------------------ bounds
\* largest max_requests / time_window a RateLimiter is constructed with
MaxRequests == 2
MaxWindow == 2
\* the clock of the rate limiter runs from 0 to MaxTime
MaxTime == 3
\* the interleaved specification starts at most MaxCalls calls of is_allowed
MaxCalls == 3

\* the clock of the database runs from 0 to MaxDbTime
MaxDbTime == 1
\* views and downloads are counted up to MaxCount
MaxCount == 1
\* one behaviour makes at most MaxOps catalog calls
MaxOps == 3
\* the analytics collection holds at most MaxEvents events
MaxEvents == 3
\* get_popular_videos and cleanup_old_analytics are called with 0..MaxDays days
MaxDays == 1
\* get_popular_videos and get_all_videos are called with a limit of 0..MaxLimit
MaxLimit == 2
\* detect_category is called with captions of at most MaxPieces pieces
MaxPieces == 3

Users == {"u1", "u2"}
VideoIds == {"vid_a", "vid_b"}
Threads == {"t1", "t2"}
NoUser == "nobody"

VARIABLES
    max_requests,   \* RateLimiter.max_requests
    time_window,    \* RateLimiter.time_window
    requests,       \* RateLimiter.requests: user id -> list of timestamps
    clock,          \* what datetime.now() returns
    last,           \* the last finished is_allowed call and its outcome
    granted,        \* history: per user, the timestamps of the calls that returned True
                    \* inside the trailing window (clock - time_window, clock]
    blocked,        \* history: the users that were denied at least once
    pc,             \* interleaved calls: each thread's position in is_allowed
    t_user,         \* interleaved calls: the thread's user_id argument
    t_now,          \* interleaved calls: the thread's local `now`
    t_pruned,       \* interleaved calls: the list comprehension's value, not yet assigned
    n_calls,        \* interleaved calls: the calls started so far
    videos,         \* the videos collection: its documents in insertion order
    db_now,         \* what datetime.now() returns in Database
    cat_last,       \* the last finished catalog call and its outcome
    deleted_ok,     \* history: the ids for which delete_video returned True
    n_ops,          \* the catalog calls made so far
    users,          \* the users collection: its documents in insertion order
    usr_last,       \* the last finished user call and its outcome
    u_pc,           \* interleaved user calls: each thread's position in its call
    u_call,         \* interleaved user calls: the thread's call, its arguments and locals
    n_act,          \* history: per user id, the update_user_activity calls the store applied
    settings,       \* the settings collection: its documents
    set_last,       \* the last finished settings call and its outcome
    s_pc,           \* interleaved update_settings calls: each thread's position
    s_call,         \* interleaved update_settings calls: the thread's key and value
    set_written,    \* history: per key, the value of the last $set the store applied
    analytics,      \* the analytics collection: its events in insertion order
    ana_last,       \* the last finished analytics call and its outcome
    stats_last,     \* the last finished get_stats call and its outcome
    look_last,      \* the last finished lookup or telemetry call and its outcome
    dc_text,        \* detect_category: the argument `text`
    dc_last,        \* detect_category: the value returned for dc_text
    conn,           \* Database.connect: its position, locals and what it has done
    st_pc,          \* interleaved get_stats: the query the call makes next
    st_loc          \* interleaved get_stats: the counts obtained so far

rlVars == <<max_requests, time_window, requests, clock, last, granted, blocked>>
thVars == <<pc, t_user, t_now, t_pruned, n_calls>>
catVars == <<videos, db_now, cat_last, deleted_ok, n_ops>>
userVars == <<users, usr_last, u_pc, u_call, n_act>>
settingsVars == <<settings, set_last, s_pc, s_call, set_written>>
analyticsVars == <<analytics, ana_last>>
restVars == <<look_last, dc_text, dc_last, conn, st_pc, st_loc>>
storeVars == <<userVars, settingsVars, analyticsVars, stats_last, restVars>>
vars == <<max_requests, time_window, requests, clock, last, granted, blocked,
          pc, t_user, t_now, t_pruned, n_calls,
          videos, db_now, cat_last, deleted_ok, n_ops,
          users, usr_last, u_pc, u_call, n_act,
          settings, set_last, s_pc, s_call, set_written,
          analytics, ana_last, stats_last,
          look_last, dc_text, dc_last, conn, st_pc, st_loc>>

\* ------------------------------------------------------------ RateLimiter

\* self.requests[user_id] = value
Put(reqs, u, value) ==
    [v \in (DOMAIN reqs) \cup {u} |-> IF v = u THEN value ELSE reqs[v]]

\* the list comprehension of is_allowed: the timestamps younger than the window
Prune(list, now) ==
    SelectSeq(list, LAMBDA req_time : now - req_time < time_window)

\* mutant: the limit compared with > instead of >=
OverLimit_offByOne(list) == Len(list) > max_requests

\* if len(self.requests[user_id]) >= self.max_requests
OverLimit(list) == Len(list) >= max_requests

\* if user_id not in self.requests: self.requests[user_id] = []
EnsureKey(reqs, u) == IF u \in DOMAIN reqs THEN reqs ELSE Put(reqs, u, <<>>)

\* mutant: the timestamp is recorded before the limit is checked, so a denied
\* call is recorded too
is_allowed_recordsDenied(reqs, u, now) ==
    LET r1 == EnsureKey(reqs, u)
        r2 == Put(r1, u, Prune(r1[u], now))
        r3 == Put(r2, u, Append(r2[u], now))
    IN  [requests |-> r3, ret |-> ~OverLimit(r2[u])]

\* mutant: one list for all users
is_allowed_sharedList(reqs, u, now) ==
    LET k == "u1"
        r1 == EnsureKey(reqs, k)
        r2 == Put(r1, k, Prune(r1[k], now))
    IN  IF OverLimit(r2[k])
        THEN [requests |-> r2, ret |-> FALSE]
        ELSE [requests |-> Put(r2, k, Append(r2[k], now)), ret |-> TRUE]

\* RateLimiter.is_allowed when no step raises: the new requests map and the result
is_allowed(reqs, u, now) ==
    LET r1 == EnsureKey(reqs, u)
        r2 == Put(r1, u, Prune(r1[u], now))
    IN  IF OverLimit(r2[u])
        THEN [requests |-> r2, ret |-> FALSE]
        ELSE [requests |-> Put(r2, u, Append(r2[u], now)), ret |-> TRUE]

\* the steps of is_allowed at which an exception may be raised
FaultPoints == {"now", "lookup", "prune", "check", "append"}

\* mutant: the except clause denies (fail-closed)
is_allowed_fault_closed(reqs, u, now, point) ==
    [requests |-> reqs, ret |-> FALSE, raised |-> FALSE]

\* RateLimiter.is_allowed when the step `point` raises: the statements before it
\* have run, the bare except returns True
is_allowed_fault(reqs, u, now, point) ==
    LET r1 == EnsureKey(reqs, u)
        r2 == Put(r1, u, Prune(r1[u], now))
        done == CASE point \in {"now", "lookup"} -> reqs
                  [] point = "prune" -> r1
                  [] OTHER -> r2
    IN  [requests |-> done, ret |-> TRUE, raised |-> FALSE]

\* whether is_allowed runs as far as the step `point`
Reaches(reqs, u, now, point) ==
    point = "append" => is_allowed(reqs, u, now).ret

\* RateLimiter.__init__(max_requests, time_window)
InitLimiter ==
    /\ max_requests \in 1..MaxRequests
    /\ time_window \in 1..MaxWindow
    /\ requests = [v \in {} |-> <<>>]
    /\ clock = 0
    /\ last = [user |-> NoUser, ret |-> TRUE, seen |-> 0, fault |-> "none", raised |-> FALSE]
    /\ granted = [u \in Users |-> <<>>]
    /\ blocked = {}

InitThreads ==
    /\ pc = [t \in Threads |-> "idle"]
    /\ t_user = [t \in Threads |-> NoUser]
    /\ t_now = [t \in Threads |-> 0]
    /\ t_pruned = [t \in Threads |-> <<>>]
    /\ n_calls = 0

\* the timestamps of `list` inside the trailing window that ends at `now`
InWindow(list, now) ==
    SelectSeq(list, LAMBDA ts : now - time_window < ts /\ ts <= now)

\* time passes between calls; the history forgets the grants that left the window
Tick ==
    /\ clock < MaxTime
    /\ clock' = clock + 1
    /\ granted' = [u \in Users |-> InWindow(granted[u], clock + 1)]
    /\ UNCHANGED <<max_requests, time_window, requests, last, blocked>>
    /\ UNCHANGED thVars
    /\ UNCHANGED <<catVars, storeVars>>

\* one whole call rate_limiter.is_allowed(u)
IsAllowedCall(u) ==
    LET out == is_allowed(requests, u, clock)
    IN  /\ requests' = out.requests
        /\ last' = [user |-> u, ret |-> out.ret, seen |-> Len(granted[u]),
                    fault |-> "none", raised |-> FALSE]
        /\ granted' = IF out.ret THEN [granted EXCEPT ![u] = Append(@, clock)]
                      ELSE granted
        /\ blocked' = IF out.ret THEN blocked ELSE blocked \cup {u}
        /\ UNCHANGED <<max_requests, time_window, clock>>
        /\ UNCHANGED thVars
        /\ UNCHANGED <<catVars, storeVars>>

\* one whole call rate_limiter.is_allowed(u) in which the step `point` raises
IsAllowedFault(u, point) ==
    /\ Reaches(requests, u, clock, point)
    /\ LET out == is_allowed_fault(requests, u, clock, point)
       IN  /\ requests' = out.requests
           /\ last' = [user |-> u, ret |-> out.ret, seen |-> Len(granted[u]),
                       fault |-> point, raised |-> out.raised]
    /\ UNCHANGED <<max_requests, time_window, clock, granted, blocked>>
    /\ UNCHANGED thVars
    /\ UNCHANGED <<catVars, storeVars>>

NextRL ==
    \/ Tick
    \/ \E u \in Users : IsAllowedCall(u)

NextRLFault ==
    \/ Tick
    \/ \E u \in Users : IsAllowedCall(u)
    \/ \E u \in Users, point \in FaultPoints : IsAllowedFault(u, point)

\* ------------------------------------------ RateLimiter, interleaved calls
\* Two threads run is_allowed on the one rate_limiter object; a thread switch
\* may fall between any two statements, and between the list comprehension
\* and the assignment of its value.

\* now = datetime.now()
Enter(t, u) ==
    /\ pc[t] = "idle"
    /\ n_calls < MaxCalls
    /\ n_calls' = n_calls + 1
    /\ pc' = [pc EXCEPT ![t] = "key"]
    /\ t_user' = [t_user EXCEPT ![t] = u]
    /\ t_now' = [t_now EXCEPT ![t] = clock]
    /\ UNCHANGED <<t_pruned, rlVars, catVars, storeVars>>

\* if user_id not in self.requests: self.requests[user_id] = []
CheckKey(t) ==
    /\ pc[t] = "key"
    /\ requests' = EnsureKey(requests, t_user[t])
    /\ pc' = [pc EXCEPT ![t] = "read"]
    /\ UNCHANGED <<max_requests, time_window, clock, last, granted, blocked>>
    /\ UNCHANGED <<t_user, t_now, t_pruned, n_calls, catVars, storeVars>>

\* [req_time for req_time in self.requests[user_id] if ...]
ReadPrune(t) ==
    /\ pc[t] = "read"
    /\ t_pruned' = [t_pruned EXCEPT ![t] = Prune(requests[t_user[t]], t_now[t])]
    /\ pc' = [pc EXCEPT ![t] = "assign"]
    /\ UNCHANGED <<t_user, t_now, n_calls, rlVars, catVars, storeVars>>

\* self.requests[user_id] = <the comprehension's value>
Assign(t) ==
    /\ pc[t] = "assign"
    /\ requests' = Put(requests, t_user[t], t_pruned[t])
    /\ pc' = [pc EXCEPT ![t] = "check"]
    /\ UNCHANGED <<max_requests, time_window, clock, last, granted, blocked>>
    /\ UNCHANGED <<t_user, t_now, t_pruned, n_calls, catVars, storeVars>>

\* if len(self.requests[user_id]) >= self.max_requests: return False
Check(t) ==
    /\ pc[t] = "check"
    /\ IF OverLimit(requests[t_user[t]])
       THEN /\ pc' = [pc EXCEPT ![t] = "idle"]
            /\ last' = [user |-> t_user[t], ret |-> FALSE,
                        seen |-> Len(granted[t_user[t]]),
                        fault |-> "none", raised |-> FALSE]
            /\ blocked' = blocked \cup {t_user[t]}
       ELSE /\ pc' = [pc EXCEPT ![t] = "append"]
            /\ UNCHANGED <<last, blocked>>
    /\ UNCHANGED <<max_requests, time_window, requests, clock, granted>>
    /\ UNCHANGED <<t_user, t_now, t_pruned, n_calls, catVars, storeVars>>

\* self.requests[user_id].append(now); return True
AppendReturn(t) ==
    /\ pc[t] = "append"
    /\ requests' = Put(requests, t_user[t], Append(requests[t_user[t]], t_now[t]))
    /\ granted' = [granted EXCEPT ![t_user[t]] = InWindow(Append(@, t_now[t]), clock)]
    /\ last' = [user |-> t_user[t], ret |-> TRUE,
                seen |-> Len(granted[t_user[t]]),
                fault |-> "none", raised |-> FALSE]
    /\ pc' = [pc EXCEPT ![t] = "idle"]
    /\ UNCHANGED <<max_requests, time_window, clock, blocked>>
    /\ UNCHANGED <<t_user, t_now, t_pruned, n_calls, catVars, storeVars>>

NextRLConc ==
    \/ Tick
    \/ \E t \in Threads, u \in Users : Enter(t, u)
    \/ \E t \in Threads : CheckKey(t)
    \/ \E t \in Threads : ReadPrune(t)
    \/ \E t \in Threads : Assign(t)
    \/ \E t \in Threads : Check(t)
    \/ \E t \in Threads : AppendReturn(t)

\* ------------------------------------------------------- Database: videos
\* A document of the videos collection. Its place in `videos` is its _id: the
\* collection is never deleted from. deleted_at is NoTime until a soft delete.
NoTime == -1
Keep == "keep"
KeepCount == -1
NoDoc == [video_id |-> "none", status |-> "none", views |-> 0, downloads |-> 0,
          added_at |-> NoTime, last_updated |-> NoTime, deleted_at |-> NoTime]

\* find_one / update_one filter {'video_id': id}: the first matching document, 0 if none
FindFirst(docs, id) ==
    IF \E i \in 1..Len(docs) : docs[i].video_id = id
    THEN CHOOSE i \in 1..Len(docs) :
            /\ docs[i].video_id = id
            /\ \A j \in 1..(i - 1) : docs[j].video_id # id
    ELSE 0

\* filter {'video_id': id, 'status': 'active'}
FindFirstActive(docs, id) ==
    IF \E i \in 1..Len(docs) : docs[i].video_id = id /\ docs[i].status = "active"
    THEN CHOOSE i \in 1..Len(docs) :
            /\ docs[i].video_id = id /\ docs[i].status = "active"
            /\ \A j \in 1..(i - 1) : ~(docs[j].video_id = id /\ docs[j].status = "active")
    ELSE 0

\* mutant: the index on video_id created without unique=True
UniqueIndexHolds_notUnique(docs) == TRUE

\* create_index([('video_id', ASCENDING)], unique=True): the store refuses a
\* write that would leave two documents with one video_id (DuplicateKeyError)
UniqueIndexHolds(docs) ==
    \A i, j \in 1..Len(docs) : docs[i].video_id = docs[j].video_id => i = j

\* Database.add_video: `up` is whether the store answers; the collection after
\* the call and whether an inserted id (not None) is returned
add_video(docs, id, now, up) ==
    LET doc == [video_id |-> id, status |-> "active", views |-> 0, downloads |-> 0,
                added_at |-> now, last_updated |-> now, deleted_at |-> NoTime]
        new == Append(docs, doc)
    IN  IF up /\ UniqueIndexHolds(new)
        THEN [videos |-> new, ok |-> TRUE]
        ELSE [videos |-> docs, ok |-> FALSE]

\* Database.get_video: the document returned, NoDoc for None
get_video(docs, id, up) ==
    IF up /\ FindFirstActive(docs, id) # 0
    THEN docs[FindFirstActive(docs, id)]
    ELSE NoDoc

\* the `updates` dictionaries of update_video: the empty one and those that set
\* one field
NoUpdate == [video_id |-> Keep, status |-> Keep, views |-> KeepCount, downloads |-> KeepCount]
Updates ==
    {NoUpdate}
    \cup {[NoUpdate EXCEPT !.video_id = v] : v \in VideoIds}
    \cup {[NoUpdate EXCEPT !.status = st] : st \in {"active", "deleted"}}
    \cup {[NoUpdate EXCEPT !.views = n] : n \in 0..MaxCount}
    \cup {[NoUpdate EXCEPT !.downloads = n] : n \in 0..MaxCount}

\* {'$set': updates} with updates['last_updated'] = now
ApplySet(doc, upd, now) ==
    [doc EXCEPT !.video_id = IF upd.video_id = Keep THEN @ ELSE upd.video_id,
                !.status = IF upd.status = Keep THEN @ ELSE upd.status,
                !.views = IF upd.views = KeepCount THEN @ ELSE upd.views,
                !.downloads = IF upd.downloads = KeepCount THEN @ ELSE upd.downloads,
                !.last_updated = now]

\* update_one(filter, change), `i` being the place of the first document the
\* filter matches (0 if none) and `doc` that document changed: the collection
\* after it, whether a document was modified (modified_count > 0), whether the
\* store raised
UpdateOne(docs, i, doc, up) ==
    LET new == IF i = 0 THEN docs ELSE [docs EXCEPT ![i] = doc]
    IN  IF up /\ UniqueIndexHolds(new)
        THEN [videos |-> new, modified |-> new # docs, raised |-> FALSE]
        ELSE [videos |-> docs, modified |-> FALSE, raised |-> TRUE]

\* the document at place i, NoDoc at place 0
DocAt(docs, i) == IF i = 0 THEN NoDoc ELSE docs[i]

\* Database.update_video
update_video(docs, id, upd, now, up) ==
    LET i == FindFirst(docs, id)
        r == UpdateOne(docs, i, ApplySet(DocAt(docs, i), upd, now), up)
    IN  [videos |-> r.videos, ok |-> r.modified]

\* Database.delete_video
delete_video(docs, id, now, up) ==
    LET i == FindFirst(docs, id)
        r == UpdateOne(docs, i,
                       [DocAt(docs, i) EXCEPT !.status = "deleted", !.deleted_at = now],
                       up)
    IN  [videos |-> r.videos, ok |-> r.modified]

\* Database.increment_view
increment_view(docs, id, up) ==
    LET i == FindFirst(docs, id)
    IN  UpdateOne(docs, i, [DocAt(docs, i) EXCEPT !.views = @ + 1], up).videos

\* Database.increment_download
increment_download(docs, id, up) ==
    LET i == FindFirst(docs, id)
    IN  UpdateOne(docs, i, [DocAt(docs, i) EXCEPT !.downloads = @ + 1], up).videos

\* Database.__init__: connected, indexes created, the collection empty
InitCatalog ==
    /\ videos = <<>>
    /\ db_now = 0
    /\ cat_last = [op |-> "none", id |-> "none", up |-> TRUE, ok |-> FALSE, doc |-> NoDoc]
    /\ deleted_ok = {}
    /\ n_ops = 0

\* one more catalog call, of the MaxOps a behaviour makes
Called == n_ops < MaxOps /\ n_ops' = n_ops + 1

\* time passes between calls
DbTick ==
    /\ db_now < MaxDbTime
    /\ db_now' = db_now + 1
    /\ UNCHANGED <<videos, cat_last, deleted_ok, n_ops, rlVars, thVars, storeVars>>

\* db.add_video({'video_id': id, ...}); `up` is whether the store answers
AddVideo(id, up) ==
    /\ Called
    /\ LET out == add_video(videos, id, db_now, up)
       IN  /\ videos' = out.videos
           /\ cat_last' = [op |-> "add_video", id |-> id, up |-> up, ok |-> out.ok,
                           doc |-> NoDoc]
    /\ UNCHANGED <<db_now, deleted_ok, rlVars, thVars, storeVars>>

\* db.get_video(id)
GetVideo(id, up) ==
    /\ Called
    /\ LET out == get_video(videos, id, up)
       IN  cat_last' = [op |-> "get_video", id |-> id, up |-> up, ok |-> out # NoDoc,
                        doc |-> out]
    /\ UNCHANGED <<videos, db_now, deleted_ok, rlVars, thVars, storeVars>>

\* db.update_video(id, upd)
UpdateVideo(id, upd, up) ==
    /\ Called
    /\ LET out == update_video(videos, id, upd, db_now, up)
       IN  /\ videos' = out.videos
           /\ cat_last' = [op |-> "update_video", id |-> id, up |-> up, ok |-> out.ok,
                           doc |-> NoDoc]
    /\ UNCHANGED <<db_now, deleted_ok, rlVars, thVars, storeVars>>

\* db.delete_video(id)
DeleteVideo(id, up) ==
    /\ Called
    /\ LET out == delete_video(videos, id, db_now, up)
       IN  /\ videos' = out.videos
           /\ cat_last' = [op |-> "delete_video", id |-> id, up |-> up, ok |-> out.ok,
                           doc |-> NoDoc]
           /\ deleted_ok' = IF out.ok THEN deleted_ok \cup {id} ELSE deleted_ok
    /\ UNCHANGED <<db_now, rlVars, thVars, storeVars>>

\* db.increment_view(id); the counters of the model stop at MaxCount
IncrementView(id, up) ==
    /\ Called
    /\ DocAt(videos, FindFirst(videos, id)).views < MaxCount
    /\ videos' = increment_view(videos, id, up)
    /\ cat_last' = [op |-> "increment_view", id |-> id, up |-> up, ok |-> TRUE,
                    doc |-> NoDoc]
    /\ UNCHANGED <<db_now, deleted_ok, rlVars, thVars, storeVars>>

\* db.increment_download(id); the counters of the model stop at MaxCount
IncrementDownload(id, up) ==
    /\ Called
    /\ DocAt(videos, FindFirst(videos, id)).downloads < MaxCount
    /\ videos' = increment_download(videos, id, up)
    /\ cat_last' = [op |-> "increment_download", id |-> id, up |-> up, ok |-> TRUE,
                    doc |-> NoDoc]
    /\ UNCHANGED <<db_now, deleted_ok, rlVars, thVars, storeVars>>

NextCatalog ==
    \/ DbTick
    \/ \E id \in VideoIds, up \in BOOLEAN : AddVideo(id, up)
    \/ \E id \in VideoIds, up \in BOOLEAN : GetVideo(id, up)
    \/ \E id \in VideoIds, upd \in Updates, up \in BOOLEAN : UpdateVideo(id, upd, up)
    \/ \E id \in VideoIds, up \in BOOLEAN : DeleteVideo(id, up)
    \/ \E id \in VideoIds, up \in BOOLEAN : IncrementView(id, up)
    \/ \E id \in VideoIds, up \in BOOLEAN : IncrementDownload(id, up)

\* -------------------------------------------------------- Database: users
\* A document of the users collection; banned_at is NoTime while the field is
\* absent. The collection is never deleted from.
Names == {"n1", "n2"}
NoUserDoc == [user_id |-> NoUser, username |-> "none", first_name |-> "none",
              joined_at |-> NoTime, last_active |-> NoTime, is_banned |-> FALSE,
              banned_at |-> NoTime, total_videos_watched |-> 0, language |-> "none"]

\* filter {'user_id': id}: the place of the first matching document, 0 if none
FindUser(docs, id) ==
    IF \E i \in 1..Len(docs) : docs[i].user_id = id
    THEN CHOOSE i \in 1..Len(docs) :
            /\ docs[i].user_id = id
            /\ \A j \in 1..(i - 1) : docs[j].user_id # id
    ELSE 0

\* the document at place i, NoUserDoc at place 0
UserAt(docs, i) == IF i = 0 THEN NoUserDoc ELSE docs[i]

\* mutant: the index on user_id created without unique=True
UsersIndexHolds_notUnique(docs) == TRUE

\* create_index([('user_id', ASCENDING)], unique=True)
UsersIndexHolds(docs) ==
    \A i, j \in 1..Len(docs) : docs[i].user_id = docs[j].user_id => i = j

\* users.insert_one(doc): the collection after it and whether the store raised
UsersInsertOne(docs, doc, up) ==
    LET new == Append(docs, doc)
    IN  IF up /\ UsersIndexHolds(new)
        THEN [users |-> new, raised |-> FALSE]
        ELSE [users |-> docs, raised |-> TRUE]

\* users.update_one({'user_id': ...}, change), `i` being the place of the
\* matching document (0 if none) and `doc` that document changed
UsersUpdateOne(docs, i, doc, up) ==
    IF up
    THEN [users |-> IF i = 0 THEN docs ELSE [docs EXCEPT ![i] = doc], raised |-> FALSE]
    ELSE [users |-> docs, raised |-> TRUE]

\* mutant: the stored document replaced by a fresh one
add_user_existing_replace(docs, id, now, up) ==
    LET i == FindUser(docs, id)
        r == UsersUpdateOne(docs, i,
                            [UserAt(docs, i) EXCEPT !.last_active = now,
                                                    !.joined_at = now,
                                                    !.is_banned = FALSE,
                                                    !.total_videos_watched = 0],
                            up)
    IN  [users |-> r.users, ret |-> ~r.raised]

\* add_user, the branch `if existing`: {'$set': {'last_active': now}}; the
\* collection after it and the value returned
add_user_existing(docs, id, now, up) ==
    LET i == FindUser(docs, id)
        r == UsersUpdateOne(docs, i, [UserAt(docs, i) EXCEPT !.last_active = now], up)
    IN  [users |-> r.users, ret |-> ~r.raised]

\* add_user, the branch that creates: user_data and insert_one
add_user_new(docs, id, username, first_name, joined, now, up) ==
    LET user_data == [user_id |-> id, username |-> username, first_name |-> first_name,
                      joined_at |-> joined, last_active |-> now, is_banned |-> FALSE,
                      banned_at |-> NoTime, total_videos_watched |-> 0,
                      language |-> "bangla"]
        r == UsersInsertOne(docs, user_data, up)
    IN  [users |-> r.users, ret |-> ~r.raised]

\* Database.add_user, run without another call in between
add_user(docs, id, username, first_name, now, up) ==
    IF ~up
    THEN [users |-> docs, ret |-> FALSE]
    ELSE IF FindUser(docs, id) # 0
         THEN add_user_existing(docs, id, now, up)
         ELSE add_user_new(docs, id, username, first_name, now, now, up)

\* mutant: the counter written with $set
Watched_set(doc) == 1

\* {'$inc': {'total_videos_watched': 1}}
Watched(doc) == doc.total_videos_watched + 1

\* Database.update_user_activity: one update_one with $set and $inc
update_user_activity(docs, id, now, up) ==
    LET i == FindUser(docs, id)
        d == UserAt(docs, i)
    IN  UsersUpdateOne(docs, i,
                       [d EXCEPT !.last_active = now,
                                 !.total_videos_watched = Watched(d)],
                       up).users

\* mutant: find({}) without the is_banned filter
ListedUser_all(doc) == TRUE

\* the filter {'is_banned': False}
ListedUser(doc) == doc.is_banned = FALSE

\* Database.get_all_users
get_all_users(docs, up) ==
    IF up THEN SelectSeq(docs, ListedUser) ELSE <<>>

\* Database.ban_user
ban_user(docs, id, now, up) ==
    LET i == FindUser(docs, id)
        r == UsersUpdateOne(docs, i,
                            [UserAt(docs, i) EXCEPT !.is_banned = TRUE, !.banned_at = now],
                            up)
    IN  [users |-> r.users, ret |-> ~r.raised]

\* Database.unban_user
unban_user(docs, id, up) ==
    LET i == FindUser(docs, id)
        r == UsersUpdateOne(docs, i, [UserAt(docs, i) EXCEPT !.is_banned = FALSE], up)
    IN  [users |-> r.users, ret |-> ~r.raised]

\* a thread that is in no call
IdleCall == [op |-> "none", id |-> NoUser, username |-> "none", first_name |-> "none",
             existing |-> FALSE, joined |-> NoTime, now |-> NoTime]

\* Database.__init__: the users collection empty, its indexes created
InitUsers ==
    /\ users = <<>>
    /\ usr_last = [op |-> "none", id |-> NoUser, up |-> TRUE, ret |-> FALSE, list |-> <<>>]
    /\ u_pc = [t \in Threads |-> "idle"]
    /\ u_call = [t \in Threads |-> IdleCall]
    /\ n_act = [u \in Users |-> 0]

\* the update_user_activity calls the store applied to a stored user
Applied(docs, id, up) ==
    IF up /\ FindUser(docs, id) # 0 THEN [n_act EXCEPT ![id] = @ + 1] ELSE n_act

\* db.add_user(id, username, first_name)
AddUser(id, username, first_name, up) ==
    /\ Called
    /\ LET out == add_user(users, id, username, first_name, db_now, up)
       IN  /\ users' = out.users
           /\ usr_last' = [op |-> "add_user", id |-> id, up |-> up, ret |-> out.ret,
                           list |-> <<>>]
    /\ UNCHANGED <<u_pc, u_call, n_act>>
    /\ UNCHANGED <<videos, db_now, cat_last, deleted_ok, rlVars, thVars, settingsVars,
                   analyticsVars, stats_last, restVars>>

\* db.update_user_activity(id)
UpdateUserActivity(id, up) ==
    /\ Called
    /\ users' = update_user_activity(users, id, db_now, up)
    /\ n_act' = Applied(users, id, up)
    /\ usr_last' = [op |-> "update_user_activity", id |-> id, up |-> up, ret |-> TRUE,
                    list |-> <<>>]
    /\ UNCHANGED <<u_pc, u_call>>
    /\ UNCHANGED <<videos, db_now, cat_last, deleted_ok, rlVars, thVars, settingsVars,
                   analyticsVars, stats_last, restVars>>

\* db.get_all_users()
GetAllUsers(up) ==
    /\ Called
    /\ usr_last' = [op |-> "get_all_users", id |-> NoUser, up |-> up, ret |-> up,
                    list |-> get_all_users(users, up)]
    /\ UNCHANGED <<users, u_pc, u_call, n_act>>
    /\ UNCHANGED <<videos, db_now, cat_last, deleted_ok, rlVars, thVars, settingsVars,
                   analyticsVars, stats_last, restVars>>

\* db.ban_user(id)
BanUser(id, up) ==
    /\ Called
    /\ LET out == ban_user(users, id, db_now, up)
       IN  /\ users' = out.users
           /\ usr_last' = [op |-> "ban_user", id |-> id, up |-> up, ret |-> out.ret,
                           list |-> <<>>]
    /\ UNCHANGED <<u_pc, u_call, n_act>>
    /\ UNCHANGED <<videos, db_now, cat_last, deleted_ok, rlVars, thVars, settingsVars,
                   analyticsVars, stats_last, restVars>>

\* db.unban_user(id)
UnbanUser(id, up) ==
    /\ Called
    /\ LET out == unban_user(users, id, up)
       IN  /\ users' = out.users
           /\ usr_last' = [op |-> "unban_user", id |-> id, up |-> up, ret |-> out.ret,
                           list |-> <<>>]
    /\ UNCHANGED <<u_pc, u_call, n_act>>
    /\ UNCHANGED <<videos, db_now, cat_last, deleted_ok, rlVars, thVars, settingsVars,
                   analyticsVars, stats_last, restVars>>

NextUsers ==
    \/ DbTick
    \/ \E id \in Users, un \in Names, fn \in Names, up \in BOOLEAN : AddUser(id, un, fn, up)
    \/ \E id \in Users, up \in BOOLEAN : UpdateUserActivity(id, up)
    \/ \E up \in BOOLEAN : GetAllUsers(up)
    \/ \E id \in Users, up \in BOOLEAN : BanUser(id, up)
    \/ \E id \in Users, up \in BOOLEAN : UnbanUser(id, up)

\* --------------------------------- Database: users, calls of two threads
\* thread t enters add_user: find_one; a store that does not answer ends the
\* call with False
AddUserFind(t, id, username, first_name, up) ==
    /\ Called
    /\ u_pc[t] = "idle"
    /\ IF up
       THEN /\ u_pc' = [u_pc EXCEPT ![t] = "found"]
            /\ u_call' = [u_call EXCEPT ![t] =
                            [IdleCall EXCEPT !.op = "add_user", !.id = id,
                                             !.username = username,
                                             !.first_name = first_name,
                                             !.existing = FindUser(users, id) # 0]]
            /\ UNCHANGED usr_last
       ELSE /\ usr_last' = [op |-> "add_user", id |-> id, up |-> FALSE, ret |-> FALSE,
                            list |-> <<>>]
            /\ UNCHANGED <<u_pc, u_call>>
    /\ UNCHANGED <<users, n_act>>
    /\ UNCHANGED <<videos, db_now, cat_last, deleted_ok, rlVars, thVars, settingsVars,
                   analyticsVars, stats_last, restVars>>

\* 'joined_at': datetime.now() of user_data
AddUserJoined(t) ==
    /\ u_pc[t] = "found"
    /\ ~u_call[t].existing
    /\ u_pc' = [u_pc EXCEPT ![t] = "joined"]
    /\ u_call' = [u_call EXCEPT ![t].joined = db_now]
    /\ UNCHANGED <<users, usr_last, n_act, catVars, rlVars, thVars, settingsVars,
                   analyticsVars, stats_last, restVars>>

\* 'last_active': datetime.now(), of the $set or of user_data
AddUserNow(t) ==
    /\ \/ u_pc[t] = "found" /\ u_call[t].existing
       \/ u_pc[t] = "joined"
    /\ u_pc' = [u_pc EXCEPT ![t] = "stamped"]
    /\ u_call' = [u_call EXCEPT ![t].now = db_now]
    /\ UNCHANGED <<users, usr_last, n_act, catVars, rlVars, thVars, settingsVars,
                   analyticsVars, stats_last, restVars>>

\* the store applies the update_one or the insert_one of add_user
AddUserWrite(t, up) ==
    /\ u_pc[t] = "stamped"
    /\ u_call[t].op = "add_user"
    /\ LET c == u_call[t]
           out == IF c.existing
                  THEN add_user_existing(users, c.id, c.now, up)
                  ELSE add_user_new(users, c.id, c.username, c.first_name,
                                    c.joined, c.now, up)
       IN  /\ users' = out.users
           /\ usr_last' = [op |-> "add_user", id |-> c.id, up |-> up, ret |-> out.ret,
                           list |-> <<>>]
    /\ u_pc' = [u_pc EXCEPT ![t] = "idle"]
    /\ u_call' = [u_call EXCEPT ![t] = IdleCall]
    /\ UNCHANGED <<n_act, catVars, rlVars, thVars, settingsVars, analyticsVars,
                   stats_last, restVars>>

\* thread t enters update_user_activity: datetime.now() of the $set
ActivityNow(t, id) ==
    /\ Called
    /\ u_pc[t] = "idle"
    /\ u_pc' = [u_pc EXCEPT ![t] = "stamped"]
    /\ u_call' = [u_call EXCEPT ![t] =
                    [IdleCall EXCEPT !.op = "update_user_activity", !.id = id,
                                     !.now = db_now]]
    /\ UNCHANGED <<users, usr_last, n_act>>
    /\ UNCHANGED <<videos, db_now, cat_last, deleted_ok, rlVars, thVars, settingsVars,
                   analyticsVars, stats_last, restVars>>

\* the store applies the update_one of update_user_activity
ActivityWrite(t, up) ==
    /\ u_pc[t] = "stamped"
    /\ u_call[t].op = "update_user_activity"
    /\ LET c == u_call[t]
       IN  /\ users' = update_user_activity(users, c.id, c.now, up)
           /\ n_act' = Applied(users, c.id, up)
           /\ usr_last' = [op |-> "update_user_activity", id |-> c.id, up |-> up,
                           ret |-> TRUE, list |-> <<>>]
    /\ u_pc' = [u_pc EXCEPT ![t] = "idle"]
    /\ u_call' = [u_call EXCEPT ![t] = IdleCall]
    /\ UNCHANGED <<catVars, rlVars, thVars, settingsVars, analyticsVars, stats_last,
                   restVars>>

NextUsersConc ==
    \/ DbTick
    \/ \E t \in Threads, id \in Users, up \in BOOLEAN :
          AddUserFind(t, id, "n1", "n2", up)
    \/ \E t \in Threads : AddUserJoined(t)
    \/ \E t \in Threads : AddUserNow(t)
    \/ \E t \in Threads, up \in BOOLEAN : AddUserWrite(t, up)
    \/ \E t \in Threads, id \in Users : ActivityNow(t, id)
    \/ \E t \in Threads, up \in BOOLEAN : ActivityWrite(t, up)

\* ----------------------------------------------------- Database: settings
\* The document {'_id': 'config', ...} of the settings collection.
DefaultFeatures == [maintenance_mode |-> FALSE, new_user_registration |-> TRUE,
                    broadcast_enabled |-> TRUE]
DefaultStats == [total_broadcasts |-> 0, total_videos_sent |-> 0]
DefaultSettings == [welcome_message |-> "", help_message |-> "",
                    features |-> DefaultFeatures, stats |-> DefaultStats]

\* the keys update_settings is called with and the values given for each
SettingKeys == {"welcome_message", "help_message", "features"}
SettingValues(key) ==
    IF key = "features"
    THEN {DefaultFeatures, [DefaultFeatures EXCEPT !.maintenance_mode = TRUE]}
    ELSE {"", "hello"}

\* Database._init_settings: insert the default unless a document is found; an
\* exception is logged and the collection left as it was
init_settings(docs, up) ==
    IF up /\ docs = <<>> THEN <<DefaultSettings>> ELSE docs

\* what a call returns when it returns no settings document
NoSettings == [absent |-> TRUE]

\* Database.get_settings: the document found, None, or {} when the store raised
get_settings(docs, up) ==
    IF ~up THEN [kind |-> "{}", doc |-> NoSettings]
    ELSE IF docs = <<>> THEN [kind |-> "None", doc |-> NoSettings]
    ELSE [kind |-> "doc", doc |-> docs[1]]

\* mutant: the document replaced by a default one that holds the new value
SetField_replace(doc, key, value) ==
    [k \in DOMAIN DefaultSettings \cup {key} |-> IF k = key THEN value ELSE DefaultSettings[k]]

\* {'$set': {key: value}} on one document
SetField(doc, key, value) ==
    [k \in DOMAIN doc \cup {key} |-> IF k = key THEN value ELSE doc[k]]

\* Database.update_settings: update_one({'_id': 'config'}, {'$set': {key: value}})
\* without upsert; the collection after it and the value returned
update_settings(docs, key, value, up) ==
    IF ~up THEN [settings |-> docs, ret |-> FALSE]
    ELSE IF docs = <<>> THEN [settings |-> docs, ret |-> TRUE]
    ELSE [settings |-> <<SetField(docs[1], key, value)>>, ret |-> TRUE]

\* a thread that is in no update_settings call
NoSetCall == [key |-> "none", value |-> ""]

\* Database.connect: _init_settings has run, its failure being swallowed
InitSettings ==
    /\ \E up \in BOOLEAN : settings = init_settings(<<>>, up)
    /\ set_last = [op |-> "none", up |-> TRUE, ret |-> [kind |-> "none", doc |-> NoSettings]]
    /\ s_pc = [t \in Threads |-> "idle"]
    /\ s_call = [t \in Threads |-> NoSetCall]
    /\ set_written = [k \in SettingKeys |-> DefaultSettings[k]]

\* db.get_settings()
GetSettings(up) ==
    /\ Called
    /\ set_last' = [op |-> "get_settings", up |-> up, ret |-> get_settings(settings, up)]
    /\ UNCHANGED <<settings, s_pc, s_call, set_written>>
    /\ UNCHANGED <<videos, db_now, cat_last, deleted_ok, rlVars, thVars, userVars,
                   analyticsVars, stats_last, restVars>>

\* thread t calls db.update_settings(key, value)
UpdateSettingsCall(t, key, value) ==
    /\ Called
    /\ s_pc[t] = "idle"
    /\ s_pc' = [s_pc EXCEPT ![t] = "sent"]
    /\ s_call' = [s_call EXCEPT ![t] = [key |-> key, value |-> value]]
    /\ UNCHANGED <<settings, set_last, set_written>>
    /\ UNCHANGED <<videos, db_now, cat_last, deleted_ok, rlVars, thVars, userVars,
                   analyticsVars, stats_last, restVars>>

\* the store applies the update_one of thread t's update_settings
UpdateSettingsApply(t, up) ==
    /\ s_pc[t] = "sent"
    /\ LET c == s_call[t]
           out == update_settings(settings, c.key, c.value, up)
       IN  /\ settings' = out.settings
           /\ set_last' = [op |-> "update_settings", up |-> up,
                           ret |-> [kind |-> IF out.ret THEN "True" ELSE "False",
                                    doc |-> NoSettings]]
           /\ set_written' = IF up /\ settings # <<>>
                             THEN [set_written EXCEPT ![c.key] = c.value]
                             ELSE set_written
    /\ s_pc' = [s_pc EXCEPT ![t] = "idle"]
    /\ s_call' = [s_call EXCEPT ![t] = NoSetCall]
    /\ UNCHANGED <<catVars, rlVars, thVars, userVars, analyticsVars, stats_last, restVars>>

NextSettings ==
    \/ \E up \in BOOLEAN : GetSettings(up)
    \/ \E t \in Threads, key \in SettingKeys :
          \E value \in SettingValues(key) : UpdateSettingsCall(t, key, value)
    \/ \E t \in Threads, up \in BOOLEAN : UpdateSettingsApply(t, up)

\* ---------------------------------------------------- Database: analytics
\* An event of the analytics collection. timedelta(days=d) is d * DayLen ticks
\* of the database clock.
DayLen == 2
Days(d) == d * DayLen
EventActions == {"view", "download"}

\* Database.log_video_request: the collection after it
log_video_request(events, user_id, video_id, action, now, up) ==
    IF up
    THEN Append(events, [user_id |-> user_id, video_id |-> video_id,
                         action |-> action, timestamp |-> now])
    ELSE events

\* mutant: the $match without the action
Counted_anyAction(e, start_date) == e.timestamp >= start_date

\* {'$match': {'timestamp': {'$gte': start_date}, 'action': 'view'}}
Counted(e, start_date) == e.timestamp >= start_date /\ e.action = "view"

\* {'$group': {'_id': '$video_id', 'count': {'$sum': 1}}}: the ids and the
\* count of one id
GroupIds(events, start_date) ==
    {events[i].video_id : i \in {j \in 1..Len(events) : Counted(events[j], start_date)}}
GroupCount(events, start_date, id) ==
    Cardinality({i \in 1..Len(events) :
                    Counted(events[i], start_date) /\ events[i].video_id = id})

\* {'$sort': {'count': -1}}: the orders the store may return the groups in,
\* groups of equal count in any order
SortedGroups(events, start_date) ==
    LET ids == GroupIds(events, start_date)
        n == Cardinality(ids)
    IN  {o \in [1..n -> ids] :
            /\ \A i, j \in 1..n : o[i] = o[j] => i = j
            /\ \A i \in 1..(n - 1) :
                  GroupCount(events, start_date, o[i])
                      >= GroupCount(events, start_date, o[i + 1])}

\* {'$limit': limit}
Limited(order, limit) ==
    SubSeq(order, 1, IF limit < Len(order) THEN limit ELSE Len(order))

\* the loop of get_popular_videos: the active video of each item, with its
\* request_count; an item without one is skipped
JoinVideos(events, docs, start_date, items) ==
    LET found == SelectSeq(items, LAMBDA id : get_video(docs, id, TRUE) # NoDoc)
    IN  [i \in 1..Len(found) |->
            [video |-> get_video(docs, found[i], TRUE),
             request_count |-> GroupCount(events, start_date, found[i])]]

\* Database.get_popular_videos, `order` being the order the store returns the
\* sorted groups in; $limit refuses a limit that is not positive
get_popular_videos(events, docs, now, days, limit, order, up) ==
    IF ~up \/ limit <= 0
    THEN <<>>
    ELSE JoinVideos(events, docs, now - Days(days), Limited(order, limit))

\* mutant: the cutoff itself deleted too
Expired_inclusive(e, cutoff_date) == e.timestamp <= cutoff_date

\* delete_many({'timestamp': {'$lt': cutoff_date}})
Expired(e, cutoff_date) == e.timestamp < cutoff_date

\* Database.cleanup_old_analytics: the collection after it and the count returned
cleanup_old_analytics(events, now, days, up) ==
    LET kept == SelectSeq(events, LAMBDA e : ~Expired(e, now - Days(days)))
    IN  IF up
        THEN [analytics |-> kept, ret |-> Len(events) - Len(kept)]
        ELSE [analytics |-> events, ret |-> 0]

\* Database.__init__: the analytics collection empty
InitAnalytics ==
    /\ analytics = <<>>
    /\ ana_last = [op |-> "none", days |-> 0, limit |-> 0, up |-> TRUE,
                   result |-> <<>>, ret |-> 0]

\* db.log_video_request(user_id, video_id, action)
LogVideoRequest(user_id, video_id, action, up) ==
    /\ Len(analytics) < MaxEvents
    /\ analytics' = log_video_request(analytics, user_id, video_id, action, db_now, up)
    /\ ana_last' = [op |-> "log_video_request", days |-> 0, limit |-> 0, up |-> up,
                    result |-> <<>>, ret |-> 0]
    /\ UNCHANGED <<catVars, rlVars, thVars, userVars, settingsVars, stats_last, restVars>>

\* db.cleanup_old_analytics(days)
CleanupOldAnalytics(days, up) ==
    /\ LET out == cleanup_old_analytics(analytics, db_now, days, up)
       IN  /\ analytics' = out.analytics
           /\ ana_last' = [op |-> "cleanup_old_analytics", days |-> days, limit |-> 0,
                           up |-> up, result |-> <<>>, ret |-> out.ret]
    /\ UNCHANGED <<catVars, rlVars, thVars, userVars, settingsVars, stats_last, restVars>>

NextAnalytics ==
    \/ DbTick
    \/ \E id \in VideoIds, action \in EventActions, up \in BOOLEAN :
          LogVideoRequest("u1", id, action, up)
    \/ \E days \in 0..MaxDays, up \in BOOLEAN : CleanupOldAnalytics(days, up)

\* --------------------------------------------------- Database: get_stats
\* video_data['category'] as the callers of add_video give it for each id
CategoryOf(id) == IF id = "vid_a" THEN "adult" ELSE "series"

\* datetime.now().replace(hour=0, minute=0, second=0, microsecond=0)
TodayStart(now) == now - (now % DayLen)

\* the trailing days and the length of top_videos
TopDays == 7
TopLimit == 5

\* the store queries of get_stats, in their order
StatQueries == 8

\* count_documents({'is_banned': False})
TotalUsers(udocs) == Cardinality({i \in 1..Len(udocs) : udocs[i].is_banned = FALSE})

\* count_documents({'status': 'active'})
TotalVideos(vdocs) == Cardinality({i \in 1..Len(vdocs) : vdocs[i].status = "active"})

\* count_documents({'category': category, 'status': 'active'})
CategoryCount(vdocs, category) ==
    Cardinality({i \in 1..Len(vdocs) :
                    CategoryOf(vdocs[i].video_id) = category /\ vdocs[i].status = "active"})

\* count_documents({'joined_at': {'$gte': today_start}})
NewUsersToday(udocs, now) ==
    Cardinality({i \in 1..Len(udocs) : udocs[i].joined_at >= TodayStart(now)})

\* count_documents({'added_at': {'$gte': today_start}, 'status': 'active'})
NewVideosToday(vdocs, now) ==
    Cardinality({i \in 1..Len(vdocs) :
                    vdocs[i].added_at >= TodayStart(now) /\ vdocs[i].status = "active"})

\* find({'added_at': {'$gte': seven_days_ago}, 'status': 'active'})
\* .sort('views', DESCENDING).limit(5): the lists the store may return,
\* videos of equal views in any order
TopVideos(vdocs, now) ==
    LET hits == {i \in 1..Len(vdocs) :
                    vdocs[i].added_at >= now - Days(TopDays) /\ vdocs[i].status = "active"}
        n == Cardinality(hits)
        orders == {o \in [1..n -> hits] :
                      /\ \A i, j \in 1..n : o[i] = o[j] => i = j
                      /\ \A i \in 1..(n - 1) : vdocs[o[i]].views >= vdocs[o[i + 1]].views}
    IN  {[i \in 1..(IF n < TopLimit THEN n ELSE TopLimit) |-> vdocs[o[i]]] : o \in orders}

\* the snapshot of the except branch
ZeroStats == [total_users |-> 0, total_videos |-> 0, adult_videos |-> 0,
              movie_videos |-> 0, series_videos |-> 0, new_users_today |-> 0,
              new_videos_today |-> 0]

\* the snapshot of the try branch, `top` being the list the store returned
Snapshot(udocs, vdocs, now, top) ==
    [total_users |-> TotalUsers(udocs),
     total_videos |-> TotalVideos(vdocs),
     adult_videos |-> CategoryCount(vdocs, "adult"),
     movie_videos |-> CategoryCount(vdocs, "movie"),
     series_videos |-> CategoryCount(vdocs, "series"),
     new_users_today |-> NewUsersToday(udocs, now),
     new_videos_today |-> NewVideosToday(vdocs, now),
     top_videos |-> top]

\* mutant: the counts obtained before the failing query are returned
get_stats_partial(udocs, vdocs, now, top, fail_at) ==
    LET full == Snapshot(udocs, vdocs, now, top)
    IN  IF fail_at = 0
        THEN full
        ELSE [total_users |-> IF fail_at > 1 THEN full.total_users ELSE 0,
              total_videos |-> IF fail_at > 2 THEN full.total_videos ELSE 0,
              adult_videos |-> IF fail_at > 3 THEN full.adult_videos ELSE 0,
              movie_videos |-> IF fail_at > 4 THEN full.movie_videos ELSE 0,
              series_videos |-> IF fail_at > 5 THEN full.series_videos ELSE 0,
              new_users_today |-> IF fail_at > 6 THEN full.new_users_today ELSE 0,
              new_videos_today |-> IF fail_at > 7 THEN full.new_videos_today ELSE 0]

\* Database.get_stats: `fail_at` is the query that raises (0: none does); the
\* counts are locals until the return statement, which a raising query
\* never reaches
get_stats(udocs, vdocs, now, top, fail_at) ==
    IF fail_at = 0 THEN Snapshot(udocs, vdocs, now, top) ELSE ZeroStats

\* ------------------------------------------ the calls not made in a behaviour
\* no lookup or telemetry call has been made
NoLookup == [op |-> "none", id |-> "none", category |-> "none", limit |-> 0,
             query |-> <<>>, up |-> TRUE, video |-> NoDoc, user |-> NoUserDoc,
             videos |-> <<>>, users |-> <<>>, raised |-> FALSE]
IdleLookups == look_last = NoLookup

\* text=None; detect_category has not been called
NoneText == <<"None">>
IdleClassifier == dc_text = NoneText /\ dc_last = "none"

\* the locals max_retries and retry_delay of connect, as it sets them
max_retries == 3
FirstDelay == 2

\* connect() has returned at its first attempt: db = Database() has finished
Connected == [pc |-> "returned", uri |-> "valid", attempt |-> 0,
              retry_delay |-> FirstDelay, slept |-> <<>>, errors |-> <<>>,
              indexed |-> TRUE]
IdleConnect == conn = Connected

\* the locals of get_stats before its first query
NoCounts == [counts |-> ZeroStats, today_start |-> NoTime]

\* no interleaved get_stats call is under way
IdleStats == st_pc = 0 /\ st_loc = NoCounts

InitRest == IdleLookups /\ IdleClassifier /\ IdleConnect /\ IdleStats

\* the users collections add_user and ban_user have built by the time `now`
Registries(now) ==
    LET one == {add_user(<<>>, "u1", "n1", "n2", t, TRUE).users : t \in 0..now}
        banned == {ban_user(r, "u1", now, TRUE).users : r \in one}
        two == {add_user(r, "u2", "n1", "n2", now, TRUE).users : r \in one \cup banned}
    IN  {<<>>} \cup one \cup banned \cup two

\* the catalogs add_video, delete_video and increment_view have built by `now`
StatCatalogs(now) ==
    LET one == {add_video(<<>>, "vid_a", t, TRUE).videos : t \in 0..now}
        deleted == {delete_video(c, "vid_a", now, TRUE).videos : c \in one}
        two == {add_video(c, "vid_b", now, TRUE).videos : c \in one \cup deleted}
        viewed == {increment_view(c, "vid_b", TRUE) : c \in two}
    IN  {<<>>} \cup one \cup deleted \cup two \cup viewed

\* db = Database(), then calls that fill the users and the videos collection
InitFilled ==
    /\ InitLimiter /\ InitThreads /\ InitSettings /\ InitAnalytics
    /\ max_requests = MaxRequests /\ time_window = MaxWindow
    /\ settings = <<DefaultSettings>>
    /\ db_now \in 0..MaxDbTime
    /\ videos \in StatCatalogs(db_now)
    /\ cat_last = [op |-> "none", id |-> "none", up |-> TRUE, ok |-> FALSE, doc |-> NoDoc]
    /\ deleted_ok = {videos[i].video_id : i \in {j \in 1..Len(videos) :
                                                    videos[j].status = "deleted"}}
    /\ n_ops = 0
    /\ users \in Registries(db_now)
    /\ usr_last = [op |-> "none", id |-> NoUser, up |-> TRUE, ret |-> FALSE, list |-> <<>>]
    /\ u_pc = [t \in Threads |-> "idle"]
    /\ u_call = [t \in Threads |-> IdleCall]
    /\ n_act = [u \in Users |-> 0]
    /\ stats_last = [op |-> "none", fail_at |-> 0, stats |-> ZeroStats]

\* the same, no call of another part being made
InitStats == InitFilled /\ InitRest

\* db.get_stats(), applied to the store once
GetStats(fail_at) ==
    /\ stats_last.op = "none"
    /\ \E top \in TopVideos(videos, db_now) :
          stats_last' = [op |-> "get_stats", fail_at |-> fail_at,
                         stats |-> get_stats(users, videos, db_now, top, fail_at)]
    /\ UNCHANGED <<catVars, rlVars, thVars, userVars, settingsVars, analyticsVars, restVars>>

NextStats ==
    \E fail_at \in 0..StatQueries : GetStats(fail_at)

\* ------------------------------------ Database: get_popular_videos, a query
\* the events log_video_request can have stored by the time `now`, oldest first
Events(now) ==
    [user_id : {"u1"}, video_id : VideoIds, action : EventActions, timestamp : 0..now]
EventLogs(now) ==
    {log \in UNION {[1..n -> Events(now)] : n \in 0..MaxEvents} :
        \A i \in 1..(Len(log) - 1) : log[i].timestamp <= log[i + 1].timestamp}

\* the catalogs the query is made over: two active videos; one soft-deleted
\* video, the other id never added
Catalogs ==
    LET a == add_video(<<>>, "vid_a", 0, TRUE).videos
    IN  {add_video(a, "vid_b", 0, TRUE).videos, delete_video(a, "vid_a", 0, TRUE).videos}

\* db = Database(), then add_video, delete_video and log_video_request calls
InitPopular ==
    /\ InitLimiter /\ InitThreads /\ InitUsers /\ InitSettings
    /\ max_requests = MaxRequests /\ time_window = MaxWindow
    /\ settings = <<DefaultSettings>>
    /\ videos \in Catalogs
    /\ db_now \in 0..MaxDbTime
    /\ cat_last = [op |-> "none", id |-> "none", up |-> TRUE, ok |-> FALSE, doc |-> NoDoc]
    /\ deleted_ok = {videos[i].video_id : i \in {j \in 1..Len(videos) :
                                                    videos[j].status = "deleted"}}
    /\ n_ops = 0
    /\ analytics \in EventLogs(db_now)
    /\ ana_last = [op |-> "none", days |-> 0, limit |-> 0, up |-> TRUE,
                   result |-> <<>>, ret |-> 0]
    /\ stats_last = [op |-> "none", fail_at |-> 0, stats |-> ZeroStats]
    /\ InitRest

\* db.get_popular_videos(days, limit), applied to the store once
GetPopularVideos(days, limit, up) ==
    /\ ana_last.op = "none"
    /\ \E order \in SortedGroups(analytics, db_now - Days(days)) :
          ana_last' = [op |-> "get_popular_videos", days |-> days, limit |-> limit,
                       up |-> up,
                       result |-> get_popular_videos(analytics, videos, db_now, days,
                                                     limit, order, up),
                       ret |-> 0]
    /\ UNCHANGED <<analytics, catVars, rlVars, thVars, userVars, settingsVars,
                   stats_last, restVars>>

NextPopular ==
    \E days \in 0..MaxDays, limit \in 0..MaxLimit, up \in BOOLEAN :
        GetPopularVideos(days, limit, up)

\* ------------------------------------------------------------------- text
\* str.lower() of one character
LowerChar(c) ==
    CASE c = "A" -> "a" [] c = "B" -> "b" [] c = "E" -> "e" [] c = "M" -> "m"
      [] c = "P" -> "p" [] c = "S" -> "s" [] c = "X" -> "x" [] OTHER -> c

\* str.lower()
Lower(t) == [i \in 1..Len(t) |-> LowerChar(t[i])]

\* t[i:].startswith(w), i counted from 1
StartsAt(t, i, w) ==
    /\ i + Len(w) - 1 <= Len(t)
    /\ \A k \in 1..Len(w) : t[i + k - 1] = w[k]

\* w in t
Contains(t, w) == \E i \in 1..(Len(t) + 1) : StartsAt(t, i, w)

\* ------------------------------------------ Database: lookups and telemetry
\* category=None
NoCategory == "none"

\* video_data['title'] as the callers of add_video give it for each id
TitleOf(id) == IF id = "vid_a" THEN <<"A", "b">> ELSE <<"b", "c">>

\* the `query` arguments of search_videos: regular expressions of one or two
\* characters, "(" being one the store rejects
QueryChars == {"a", "B", "c", "("}
Queries == {<<c>> : c \in QueryChars} \cup {<<c, d>> : c, d \in {"a", "B"}}

\* {'$regex': query, '$options': 'i'}: whether the store accepts the
\* expression, and whether a title matches it
ValidRegex(query) == \A i \in 1..Len(query) : query[i] # "("
RegexMatches(title, query) == Contains(Lower(title), Lower(query))

\* .limit(20) of search_videos
SearchLimit == 20

\* cursor.limit(limit): the first `limit` documents; a limit of 0 is no limit
CursorLimit(list, limit) ==
    IF limit = 0 \/ Len(list) <= limit THEN list ELSE SubSeq(list, 1, limit)

\* the except clause of a lookup or telemetry method: whether the exception
\* of a failing store call leaves the method
Raises_uncaught(up) == ~up
Raises(up) == FALSE

\* find({'status': 'active'[, 'category': category]}): the positions found
ListedVideos(docs, category) ==
    {i \in 1..Len(docs) :
        /\ docs[i].status = "active"
        /\ (category # NoCategory => CategoryOf(docs[i].video_id) = category)}

\* .sort('added_at', DESCENDING): the orders the store may return the found
\* documents in, documents of equal added_at in any order
NewestFirst(docs, found) ==
    LET n == Cardinality(found)
    IN  {o \in [1..n -> found] :
            /\ \A i, j \in 1..n : o[i] = o[j] => i = j
            /\ \A i \in 1..(n - 1) : docs[o[i]].added_at >= docs[o[i + 1]].added_at}

\* Database.get_all_videos: `order` is the order the store sorted in
get_all_videos(docs, category, limit, order, up) ==
    IF up
    THEN CursorLimit([i \in 1..Len(order) |-> docs[order[i]]], limit)
    ELSE <<>>

\* Database.search_videos: the store returns the matches in insertion order
search_videos(docs, query, up) ==
    LET hit(i) == RegexMatches(TitleOf(docs[i].video_id), query)
                      /\ docs[i].status = "active"
        F[i \in 0..Len(docs)] ==
            IF i = 0 THEN <<>>
            ELSE IF hit(i) THEN Append(F[i - 1], docs[i]) ELSE F[i - 1]
    IN  IF up /\ ValidRegex(query) THEN CursorLimit(F[Len(docs)], SearchLimit) ELSE <<>>

\* Database.get_user
get_user(docs, id, up) ==
    IF up /\ FindUser(docs, id) # 0 THEN docs[FindUser(docs, id)] ELSE NoUserDoc

\* db = Database(), then calls that fill the collections; no lookup yet
InitLookups == InitFilled /\ IdleLookups /\ IdleClassifier /\ IdleConnect /\ IdleStats

\* the variables a lookup leaves alone
lookupFrame == <<rlVars, thVars, db_now, cat_last, deleted_ok, n_ops, userVars,
                 settingsVars, ana_last, stats_last, dc_text, dc_last, conn, st_pc,
                 st_loc>>

\* db.get_video(id), made once
CallGetVideo(id, up) ==
    /\ look_last.op = "none"
    /\ look_last' = [NoLookup EXCEPT !.op = "get_video", !.id = id, !.up = up,
                                     !.video = get_video(videos, id, up),
                                     !.raised = Raises(up)]
    /\ UNCHANGED <<videos, analytics, lookupFrame>>

\* db.get_all_videos(category, limit), made once
CallGetAllVideos(category, limit, up) ==
    /\ look_last.op = "none"
    /\ \E order \in NewestFirst(videos, ListedVideos(videos, category)) :
          look_last' = [NoLookup EXCEPT
                            !.op = "get_all_videos", !.category = category,
                            !.limit = limit, !.up = up,
                            !.videos = get_all_videos(videos, category, limit, order, up),
                            !.raised = Raises(up)]
    /\ UNCHANGED <<videos, analytics, lookupFrame>>

\* db.search_videos(query), made once
CallSearchVideos(query, up) ==
    /\ look_last.op = "none"
    /\ look_last' = [NoLookup EXCEPT !.op = "search_videos", !.query = query, !.up = up,
                                     !.videos = search_videos(videos, query, up),
                                     !.raised = Raises(up /\ ValidRegex(query))]
    /\ UNCHANGED <<videos, analytics, lookupFrame>>

\* db.get_user(id), made once
CallGetUser(id, up) ==
    /\ look_last.op = "none"
    /\ look_last' = [NoLookup EXCEPT !.op = "get_user", !.id = id, !.up = up,
                                     !.user = get_user(users, id, up),
                                     !.raised = Raises(up)]
    /\ UNCHANGED <<videos, analytics, lookupFrame>>

\* db.get_all_users(), made once
CallGetAllUsers(up) ==
    /\ look_last.op = "none"
    /\ look_last' = [NoLookup EXCEPT !.op = "get_all_users", !.up = up,
                                     !.users = get_all_users(users, up),
                                     !.raised = Raises(up)]
    /\ UNCHANGED <<videos, analytics, lookupFrame>>

\* db.increment_view(id), made once
CallIncrementView(id, up) ==
    /\ look_last.op = "none"
    /\ videos' = increment_view(videos, id, up)
    /\ look_last' = [NoLookup EXCEPT !.op = "increment_view", !.id = id, !.up = up,
                                     !.raised = Raises(up)]
    /\ UNCHANGED <<analytics, lookupFrame>>

\* db.increment_download(id), made once
CallIncrementDownload(id, up) ==
    /\ look_last.op = "none"
    /\ videos' = increment_download(videos, id, up)
    /\ look_last' = [NoLookup EXCEPT !.op = "increment_download", !.id = id, !.up = up,
                                     !.raised = Raises(up)]
    /\ UNCHANGED <<analytics, lookupFrame>>

\* db.log_video_request(user_id, video_id, action), made once
CallLogVideoRequest(user_id, video_id, action, up) ==
    /\ look_last.op = "none"
    /\ analytics' = log_video_request(analytics, user_id, video_id, action, db_now, up)
    /\ look_last' = [NoLookup EXCEPT !.op = "log_video_request", !.id = video_id,
                                     !.up = up, !.raised = Raises(up)]
    /\ UNCHANGED <<videos, lookupFrame>>

NextLookups ==
    \/ \E id \in VideoIds, up \in BOOLEAN : CallGetVideo(id, up)
    \/ \E category \in {NoCategory, "adult", "movie", "series"},
          limit \in 0..MaxLimit, up \in BOOLEAN : CallGetAllVideos(category, limit, up)
    \/ \E query \in Queries, up \in BOOLEAN : CallSearchVideos(query, up)
    \/ \E id \in Users, up \in BOOLEAN : CallGetUser(id, up)
    \/ \E up \in BOOLEAN : CallGetAllUsers(up)
    \/ \E id \in VideoIds, up \in BOOLEAN : CallIncrementView(id, up)
    \/ \E id \in VideoIds, up \in BOOLEAN : CallIncrementDownload(id, up)
    \/ \E user_id \in Users, video_id \in VideoIds, action \in EventActions,
          up \in BOOLEAN : CallLogVideoRequest(user_id, video_id, action, up)

\* ---------------------------------------------------------- detect_category
\* a text is a sequence of characters. Characters outside ASCII are written
\* by name: "under-18" is the emoji of adult_keywords, "pa" "ra" "virama" "ba"
\* spell the first Bengali pattern, "sa" "i" "ja" "na" the second, and
\* "bengali-1" is a Bengali digit
adult_keywords ==
    {<<"1", "8", "+">>, <<"a", "d", "u", "l", "t">>, <<"x", "x", "x">>,
     <<"p", "o", "r", "n">>, <<"s", "e", "x">>, <<"n", "s", "f", "w">>, <<"under-18">>,
     <<"o", "n", "l", "y", "f", "a", "n", "s">>,
     <<"e", "x", "p", "l", "i", "c", "i", "t">>}

\* \d and \s of the patterns
Digits == {"0", "1", "5", "8", "bengali-1"}
Spaces == {" "}

\* [Ss](\d+)[Ee](\d+) matched at position i
MatchSE(t, i) ==
    /\ i <= Len(t) /\ t[i] \in {"s", "S"}
    /\ \E j \in (i + 2)..(Len(t) - 1) :
          /\ \A k \in (i + 1)..(j - 1) : t[k] \in Digits
          /\ t[j] \in {"e", "E"}
          /\ t[j + 1] \in Digits

\* the patterns of a word, \s* and (\d+): the alternatives of the first
\* character and the characters after it
series_words ==
    {[first |-> {"s", "S"}, rest |-> <<"e", "a", "s", "o", "n">>],
     [first |-> {"e", "E"}, rest |-> <<"p", "i", "s", "o", "d", "e">>],
     [first |-> {"e", "E"}, rest |-> <<"p">>],
     [first |-> {"pa"}, rest |-> <<"ra", "virama", "ba">>],
     [first |-> {"sa"}, rest |-> <<"i", "ja", "na">>]}

\* such a pattern matched at position i
MatchWord(t, i, w) ==
    /\ i <= Len(t) /\ t[i] \in w.first
    /\ StartsAt(t, i + 1, w.rest)
    /\ \E j \in (i + 1 + Len(w.rest))..Len(t) :
          /\ \A k \in (i + 1 + Len(w.rest))..(j - 1) : t[k] \in Spaces
          /\ t[j] \in Digits

\* any(re.search(pattern, t) for pattern in series_patterns)
SeriesMatch(t) ==
    \E i \in 1..Len(t) : MatchSE(t, i) \/ \E w \in series_words : MatchWord(t, i, w)

\* mutant: the series patterns are tried before the adult keywords
detect_category_seriesFirst(text) ==
    IF text = NoneText \/ text = <<>>
    THEN "movie"
    ELSE LET text_lower == Lower(text)
         IN  IF SeriesMatch(text_lower) THEN "series"
             ELSE IF \E keyword \in adult_keywords : Contains(text_lower, keyword)
                  THEN "adult"
                  ELSE "movie"

\* detect_category(text)
detect_category(text) ==
    IF text = NoneText \/ text = <<>>
    THEN "movie"
    ELSE LET text_lower == Lower(text)
         IN  IF \E keyword \in adult_keywords : Contains(text_lower, keyword)
             THEN "adult"
             ELSE IF SeriesMatch(text_lower) THEN "series" ELSE "movie"

\* the pieces captions are put together from, and the captions of at most
\* MaxPieces pieces
Pieces ==
    {<<"S", "0", "1">>, <<"E", "0", "5">>, <<"E", "p">>, <<" ">>, <<"1">>,
     <<"s", "e", "a", "s", "o", "n">>, <<"X", "X", "X">>, <<"1", "8", "+">>,
     <<"M", "o", "v", "i", "e">>}
RECURSIVE Captions(_)
Captions(n) ==
    IF n = 0 THEN {<<>>}
    ELSE Captions(n - 1) \cup {t \o p : t \in Captions(n - 1), p \in Pieces}
Texts == Captions(MaxPieces) \cup {NoneText}

\* detect_category(dc_text), called once
DetectCategory ==
    /\ dc_last = "none"
    /\ dc_last' = detect_category(dc_text)
    /\ UNCHANGED <<rlVars, thVars, catVars, userVars, settingsVars, analyticsVars,
                   stats_last, look_last, dc_text, conn, st_pc, st_loc>>

NextClassifier == DetectCategory

\* ------------------------------------------------------- Database: connect
\* MONGO_URI: not set in the environment, blank, one MongoClient rejects, one
\* it accepts
Uris == {"unset", "empty", "invalid", "valid"}

\* the exceptions the ping raises
PingErrors == {"ServerSelectionTimeoutError", "OperationFailure"}

\* mutant: the delay is not doubled
Backoff_constant(retry_delay) == retry_delay
\* retry_delay *= 2
Backoff(retry_delay) == retry_delay * 2

\* the variables connect leaves alone
connectFrame == <<rlVars, thVars, catVars, userVars, set_last, s_pc, s_call,
                  set_written, analyticsVars, stats_last, look_last, dc_text, dc_last,
                  st_pc, st_loc>>

\* except Exception as e: logger.error(...)
Failed(e) == [conn EXCEPT !.pc = "except", !.errors = Append(@, e)]

\* MONGO_URI.strip(), the check of the empty URI and MongoClient(...);
\* `resolved` is whether the client could resolve an accepted URI
ConnectClient(resolved) ==
    /\ conn.pc = "try"
    /\ conn' = CASE conn.uri = "unset" -> Failed("AttributeError")
                 [] conn.uri = "empty" -> Failed("ValueError")
                 [] conn.uri = "invalid" -> Failed("ConfigurationError")
                 [] OTHER -> IF resolved THEN [conn EXCEPT !.pc = "ping"]
                             ELSE Failed("ConfigurationError")
    /\ UNCHANGED <<settings, connectFrame>>

\* self.client.admin.command('ping'); `e` is what it raises, "none" if nothing
ConnectPing(e) ==
    /\ conn.pc = "ping"
    /\ conn' = IF e = "none" THEN [conn EXCEPT !.pc = "setup"] ELSE Failed(e)
    /\ UNCHANGED <<settings, connectFrame>>

\* the collections, _create_indexes(), _init_settings() and return; both
\* helpers swallow their exceptions
ConnectSetup(indexes_up, settings_up) ==
    /\ conn.pc = "setup"
    /\ settings' = init_settings(settings, settings_up)
    /\ conn' = [conn EXCEPT !.pc = "returned", !.indexed = indexes_up]
    /\ UNCHANGED connectFrame

\* if attempt < max_retries - 1: time.sleep(retry_delay); retry_delay *= 2,
\* and the next iteration of the loop
ConnectRetry ==
    /\ conn.pc = "except"
    /\ conn.attempt < max_retries - 1
    /\ conn' = [conn EXCEPT !.pc = "try", !.attempt = @ + 1,
                            !.slept = Append(@, conn.retry_delay),
                            !.retry_delay = Backoff(@)]
    /\ UNCHANGED <<settings, connectFrame>>

\* else: raise
ConnectRaise ==
    /\ conn.pc = "except"
    /\ ~(conn.attempt < max_retries - 1)
    /\ conn' = [conn EXCEPT !.pc = "raised"]
    /\ UNCHANGED <<settings, connectFrame>>

NextConnect ==
    \/ \E resolved \in BOOLEAN : ConnectClient(resolved)
    \/ \E e \in PingErrors \cup {"none"} : ConnectPing(e)
    \/ \E indexes_up, settings_up \in BOOLEAN : ConnectSetup(indexes_up, settings_up)
    \/ ConnectRetry
    \/ ConnectRaise

\* ------------------------- Database: get_stats, its queries one at a time
\* the variables a query of get_stats leaves alone
statsFrame == <<rlVars, thVars, catVars, userVars, settingsVars, analyticsVars,
                look_last, dc_text, dc_last, conn>>

\* db.get_stats() is called
StatsBegin ==
    /\ st_pc = 0
    /\ stats_last.op = "none"
    /\ st_pc' = 1
    /\ st_loc' = NoCounts
    /\ UNCHANGED <<stats_last, statsFrame>>

\* the store raises in the query the call is at: the except branch returns
StatsFail ==
    /\ st_pc \in 1..StatQueries
    /\ stats_last' = [op |-> "get_stats", fail_at |-> st_pc, stats |-> ZeroStats]
    /\ st_pc' = 0
    /\ st_loc' = NoCounts
    /\ UNCHANGED statsFrame

\* one of the seven count_documents queries, made on the collections as
\* they are now; today_start is read from the clock before the sixth
StatsCount ==
    /\ st_pc \in 1..(StatQueries - 1)
    /\ st_loc' =
          CASE st_pc = 1 -> [st_loc EXCEPT !.counts.total_users = TotalUsers(users)]
            [] st_pc = 2 -> [st_loc EXCEPT !.counts.total_videos = TotalVideos(videos)]
            [] st_pc = 3 -> [st_loc EXCEPT !.counts.adult_videos =
                                               CategoryCount(videos, "adult")]
            [] st_pc = 4 -> [st_loc EXCEPT !.counts.movie_videos =
                                               CategoryCount(videos, "movie")]
            [] st_pc = 5 -> [st_loc EXCEPT !.counts.series_videos =
                                               CategoryCount(videos, "series")]
            [] st_pc = 6 -> [st_loc EXCEPT !.today_start = TodayStart(db_now),
                                           !.counts.new_users_today =
                                               NewUsersToday(users, db_now)]
            [] OTHER -> [st_loc EXCEPT !.counts.new_videos_today =
                            Cardinality({i \in 1..Len(videos) :
                                            /\ videos[i].added_at >= st_loc.today_start
                                            /\ videos[i].status = "active"})]
    /\ st_pc' = st_pc + 1
    /\ UNCHANGED <<stats_last, statsFrame>>

\* the top_videos query and the return statement
StatsReturn ==
    /\ st_pc = StatQueries
    /\ \E top \in TopVideos(videos, db_now) :
          stats_last' =
              [op |-> "get_stats", fail_at |-> 0,
               stats |-> [total_users |-> st_loc.counts.total_users,
                          total_videos |-> st_loc.counts.total_videos,
                          adult_videos |-> st_loc.counts.adult_videos,
                          movie_videos |-> st_loc.counts.movie_videos,
                          series_videos |-> st_loc.counts.series_videos,
                          new_users_today |-> st_loc.counts.new_users_today,
                          new_videos_today |-> st_loc.counts.new_videos_today,
                          top_videos |-> top]]
    /\ st_pc' = 0
    /\ st_loc' = NoCounts
    /\ UNCHANGED statsFrame

NextStatsConc ==
    \/ StatsBegin
    \/ StatsFail
    \/ StatsCount
    \/ StatsReturn
    \/ DbTick
    \/ \E id \in VideoIds, up \in BOOLEAN : AddVideo(id, up)
    \/ \E id \in VideoIds, up \in BOOLEAN : DeleteVideo(id, up)

\* --------------------------------------------------------- specifications
\* the state after rate_limiter = RateLimiter(...) and db = Database()
InitProgram ==
    /\ InitLimiter /\ InitThreads /\ InitCatalog /\ InitUsers /\ InitSettings
    /\ InitAnalytics
    /\ stats_last = [op |-> "none", fail_at |-> 0, stats |-> ZeroStats]

\* the same, no call of the lookup, classifier, connect and interleaved
\* get_stats parts being made
Init == InitProgram /\ InitRest

\* the same, _init_settings having inserted the default settings
InitRL == Init /\ settings = <<DefaultSettings>>

\* the same, the rate limiter being constructed with one pair of arguments
InitDb == InitRL /\ max_requests = MaxRequests /\ time_window = MaxWindow

\* one pair of arguments of the rate limiter, _init_settings having inserted
\* the default settings or having failed
InitStore == Init /\ max_requests = MaxRequests /\ time_window = MaxWindow

\* RateLimiter: sequential calls, no step raises
SpecRL == InitRL /\ [][NextRL]_vars
\* RateLimiter: sequential calls, any step may raise
SpecRLFault == InitRL /\ [][NextRLFault]_vars
\* RateLimiter: two threads, statements interleaved
SpecRLConc == InitRL /\ [][NextRLConc]_vars
\* Database: the catalog operations, one call at a time
SpecCatalog == InitDb /\ [][NextCatalog]_vars
\* Database: the user operations, one call at a time
SpecUsers == InitDb /\ [][NextUsers]_vars
\* Database: add_user and update_user_activity called by two threads
SpecUsersConc == InitDb /\ [][NextUsersConc]_vars
\* Database: get_settings, and update_settings called by two threads
SpecSettings == InitStore /\ [][NextSettings]_vars
\* Database: log_video_request and cleanup_old_analytics, one call at a time
SpecAnalytics == InitDb /\ [][NextAnalytics]_vars
\* Database: get_popular_videos over the stores of InitPopular
SpecPopular == InitPopular /\ [][NextPopular]_vars
\* Database: get_stats over the stores of InitStats, any of its queries failing
SpecStats == InitStats /\ [][NextStats]_vars

SpecLookups == InitLookups /\ [][NextLookups]_vars

\* a caption is given to the classifier
InitClassifier ==
    /\ InitProgram /\ settings = <<DefaultSettings>>
    /\ max_requests = MaxRequests /\ time_window = MaxWindow
    /\ IdleLookups /\ IdleConnect /\ IdleStats
    /\ dc_text \in Texts /\ dc_last = "none"

SpecClassifier == InitClassifier /\ [][NextClassifier]_vars

\* get_stats is called while add_video and delete_video calls are made
SpecStatsConc == InitDb /\ [][NextStatsConc]_vars

\* Database() is being constructed: connect() is at its first attempt
InitConnect ==
    /\ InitProgram
    /\ max_requests = MaxRequests /\ time_window = MaxWindow
    /\ IdleLookups /\ IdleClassifier /\ IdleStats
    /\ conn \in {[pc |-> "try", uri |-> uri, attempt |-> 0, retry_delay |-> FirstDelay,
                  slept |-> <<>>, errors |-> <<>>, indexed |-> FALSE] : uri \in Uris}

SpecConnect == InitConnect /\ [][NextConnect]_vars

\* connect() runs in the constructor and nothing else runs beside it: a
\* statement that can be executed is executed, and the client's calls return
\* or raise within their timeouts
SpecConnectFair == SpecConnect /\ WF_vars(NextConnect)

\* ------------------------------------------------- RateLimiter: properties

\* how often `ts` occurs in `list`
Occurrences(list, ts) == Cardinality({i \in 1..Len(list) : list[i] = ts})

\* C1: with calls at non-decreasing times, the calls of one user that returned
\* True with a timestamp in the trailing interval (clock - time_window, clock]
\* number at most max_requests in every state, and a call is allowed exactly
\* when fewer than max_requests such calls precede it: the first max_requests
\* calls of a window are allowed, the next one is denied.
C1_WindowBudget ==
    /\ \A u \in Users : Len(granted[u]) <= max_requests
    /\ last.user \in Users => (last.ret <=> last.seen < max_requests)

\* a call was denied with max_requests allowed calls in its window
C1_Witness ==
    /\ last.user \in Users
    /\ ~last.ret
    /\ Len(granted[last.user]) = max_requests
    /\ max_requests = MaxRequests

\* C2: a denied call records nothing (the user's list and the history of
\* grants are as before), and a call made when fewer than max_requests allowed
\* requests of the user lie in the last time_window seconds returns True.
C2_DeniedNotRecorded ==
    [][clock' = clock =>
        LET u == last'.user
        IN  /\ ~last'.ret =>
                /\ u \in DOMAIN requests
                /\ requests'[u] = requests[u]
                /\ granted' = granted
            /\ Len(granted[u]) < max_requests => last'.ret
            /\ last'.ret => Occurrences(requests'[u], clock) =
                            Occurrences(EnsureKey(requests, u)[u], clock) + 1
      ]_vars

\* a user that was denied before is allowed again, the window having elapsed
C2_Witness ==
    /\ last.user \in blocked
    /\ last.ret
    /\ Len(requests[last.user]) = max_requests
    /\ \A i \in 1..Len(requests[last.user]) : requests[last.user][i] > 0

\* C3: is_allowed(u) leaves every other user's key and list as they were, and
\* the part of a user's list inside the window holds exactly the timestamps of
\* that user's own allowed calls, so that no call for u changes what
\* is_allowed(v) returns.
C3_PerUserBudget ==
    /\ [](\A v \in Users :
            IF v \in DOMAIN requests
            THEN InWindow(requests[v], clock) = granted[v]
            ELSE granted[v] = <<>>)
    /\ [][clock' = clock =>
            \A v \in Users \ {last'.user} :
                /\ v \in DOMAIN requests' <=> v \in DOMAIN requests
                /\ v \in DOMAIN requests => requests'[v] = requests[v]
                /\ granted'[v] = granted[v]
         ]_vars

\* one user is over the limit and denied while the other user is allowed
C3_Witness ==
    /\ last.user \in Users
    /\ last.ret
    /\ \E v \in Users \ {last.user} :
          /\ v \in blocked
          /\ Len(granted[v]) = max_requests
          /\ Len(granted[last.user]) < max_requests

\* C4: with two calls interleaved, every timestamp of a call that returned True
\* and is still inside the window is in the user's list, and the calls allowed
\* within one window number at most max_requests.
C4_NoLostGrantNoOverrun ==
    \A u \in Users :
        /\ Len(granted[u]) <= max_requests
        /\ \A i \in 1..Len(granted[u]) :
              /\ u \in DOMAIN requests
              /\ Occurrences(requests[u], granted[u][i]) >=
                 Occurrences(granted[u], granted[u][i])

\* C5: a call in which a step raises returns True and raises nothing.
C5_FailOpen ==
    last.fault # "none" => last.ret /\ ~last.raised

\* the limit check raised for a user whose list is full: allowed all the same
C5_Witness ==
    /\ last.fault = "check"
    /\ last.user \in DOMAIN requests
    /\ OverLimit(Prune(requests[last.user], clock))
    /\ last.ret

\* ---------------------------------------------------- Catalog: properties

\* the places of the documents that hold video_id `id`
Holding(docs, id) == {i \in 1..Len(docs) : docs[i].video_id = id}

C7_DeletedStaysHidden ==
    /\ [](\A id \in deleted_ok : get_video(videos, id, TRUE) = NoDoc)
    /\ [](cat_last.op = "get_video" /\ cat_last.ok => cat_last.doc.status # "deleted")
    /\ [][Len(videos') >= Len(videos)]_vars

\* C8: the status of a document changes only from 'active' to 'deleted'.
C8_StatusOneWay ==
    [][\A i \in 1..Len(videos) :
          videos'[i].status # videos[i].status =>
              videos[i].status = "active" /\ videos'[i].status = "deleted"
      ]_vars

\* C9: views and downloads of a document never decrease, and a step changes
\* a counter by 1 at most.
C9_CountersMonotone ==
    [][\A i \in 1..Len(videos) :
          /\ videos'[i].views >= videos[i].views
          /\ videos'[i].downloads >= videos[i].downloads
          /\ cat_last'.op = "increment_view" =>
                videos'[i].views \in {videos[i].views, videos[i].views + 1}
          /\ cat_last'.op = "increment_download" =>
                videos'[i].downloads \in {videos[i].downloads, videos[i].downloads + 1}
      ]_vars

\* C10: no two stored documents have one video_id, and no step changes the
\* video_id of a stored document.
C10_VideoIdImmutableUnique ==
    /\ [](\A i, j \in 1..Len(videos) : videos[i].video_id = videos[j].video_id => i = j)
    /\ [][\A i \in 1..Len(videos) : videos'[i].video_id = videos[i].video_id]_vars

\* ------------------------------------------------------ Users: properties

\* the places of the documents that hold user_id `id`
HoldingUser(docs, id) == {i \in 1..Len(docs) : docs[i].user_id = id}

C12_KnownUserOnlyTouched ==
    /\ [][(n_ops' = n_ops + 1 /\ usr_last'.op = "add_user"
           /\ HoldingUser(users, usr_last'.id) # {}) =>
            /\ Len(users') = Len(users)
            /\ \A i \in 1..Len(users) :
                  /\ users'[i] = [users[i] EXCEPT !.last_active = users'[i].last_active]
                  /\ users[i].user_id # usr_last'.id => users'[i] = users[i]
      ]_vars
    /\ [][\A i \in 1..Len(users) : users'[i].joined_at = users[i].joined_at]_vars

\* add_user returned True for a banned user: last_active is later than
\* joined_at, the ban and the counter as they were
C12_Witness ==
    /\ usr_last.op = "add_user"
    /\ usr_last.ret
    /\ \E i \in HoldingUser(users, usr_last.id) :
          /\ users[i].last_active > users[i].joined_at
          /\ users[i].is_banned
          /\ users[i].banned_at # NoTime
          /\ users[i].total_videos_watched = 0

\* C13: no step lowers last_active of a stored user document, the calls of
\* add_user and update_user_activity being interleaved.
C13_LastActiveMonotone ==
    [][\A i \in 1..Len(users) : users'[i].last_active >= users[i].last_active]_vars

\* C14: the counter of every stored user equals the number of
\* update_user_activity calls the store applied to it, whatever the
\* interleaving; the write of update_user_activity, the store answering and
\* the user stored, raises the counter by exactly 1, and changes nothing but
\* last_active and the counter of that user's document.
C14_ActivityCountsEach ==
    /\ [](\A i \in 1..Len(users) :
            users[i].total_videos_watched = n_act[users[i].user_id])
    /\ [][\A t \in Threads :
            (u_pc[t] = "stamped" /\ u_call[t].op = "update_user_activity"
             /\ u_pc'[t] = "idle") =>
                /\ Len(users') = Len(users)
                /\ \A i \in 1..Len(users) :
                      /\ users'[i] = [users[i] EXCEPT
                                        !.last_active = users'[i].last_active,
                                        !.total_videos_watched =
                                            users'[i].total_videos_watched]
                      /\ users[i].user_id # u_call[t].id => users'[i] = users[i]
                      /\ (users[i].user_id = u_call[t].id /\ usr_last'.up) =>
                            users'[i].total_videos_watched =
                                users[i].total_videos_watched + 1
      ]_vars

\* one call was applied while another for the same user, which read the clock
\* earlier, is still to be applied
C14_Witness ==
    \E t \in Threads, i \in 1..Len(users) :
        /\ u_pc[t] = "stamped"
        /\ u_call[t].op = "update_user_activity"
        /\ u_call[t].id = users[i].user_id
        /\ users[i].total_videos_watched = 1
        /\ u_call[t].now < users[i].last_active

\* the documents of `list`, as a set
Listed(list) == {list[i] : i \in 1..Len(list)}

C16_LazySingleton ==
    /\ [](Len(settings) <= 1)
    /\ []((set_last.op = "get_settings" /\ set_last.up) =>
            /\ Len(settings) = 1
            /\ set_last.ret = [kind |-> "doc", doc |-> settings[1]])
    /\ [][(n_ops' = n_ops + 1 /\ set_last'.op = "get_settings" /\ set_last'.up
           /\ settings = <<>>) =>
            settings' = <<DefaultSettings>>
      ]_vars

ViewsSince(id, start) ==
    Cardinality({i \in 1..Len(analytics) :
                    /\ analytics[i].video_id = id
                    /\ analytics[i].action = "view"
                    /\ analytics[i].timestamp >= start})

\* C18: the result of get_popular_videos(days, limit), the store answering and
\* limit positive, is made from a set `top` of min(limit, number of groups)
\* video ids that have view events in the trailing `days` days, none outside
\* `top` having more such events than one inside: the result lists, in
\* non-increasing order of count and each once, those ids of `top` that have an
\* active video, each with that active document and request_count equal to its
\* number of view events in the window. So it holds active videos only and at
\* most `limit` entries. When the store does not answer the result is empty.
C18_PopularVideos ==
    ana_last.op = "get_popular_videos" =>
        LET res == ana_last.result
            start == db_now - Days(ana_last.days)
            groups == {id \in VideoIds : ViewsSince(id, start) > 0}
            active(id) == \E i \in 1..Len(videos) :
                              videos[i].video_id = id /\ videos[i].status = "active"
        IN  /\ Len(res) <= ana_last.limit
            /\ \A i \in 1..Len(res) :
                  /\ res[i].video.status = "active"
                  /\ \E j \in 1..Len(videos) : videos[j] = res[i].video
                  /\ res[i].request_count = ViewsSince(res[i].video.video_id, start)
            /\ \A i, j \in 1..Len(res) :
                  /\ i < j => res[i].request_count >= res[j].request_count
                  /\ res[i].video.video_id = res[j].video.video_id => i = j
            /\ ~ana_last.up => res = <<>>
            /\ (ana_last.up /\ ana_last.limit > 0) =>
                  \E top \in SUBSET groups :
                      /\ Cardinality(top) = IF ana_last.limit < Cardinality(groups)
                                            THEN ana_last.limit
                                            ELSE Cardinality(groups)
                      /\ \A x \in top, y \in groups \ top :
                            ViewsSince(x, start) >= ViewsSince(y, start)
                      /\ {res[i].video.video_id : i \in 1..Len(res)}
                            = {id \in top : active(id)}

\* limit 1 and two groups: the video with two view events in the window is
\* returned, the one with one view event is not
C18_Witness ==
    /\ ana_last.op = "get_popular_videos"
    /\ ana_last.up
    /\ ana_last.limit = 1
    /\ Len(ana_last.result) = 1
    /\ ana_last.result[1].request_count = 2
    /\ \E id \in VideoIds :
          /\ id # ana_last.result[1].video.video_id
          /\ ViewsSince(id, db_now - Days(ana_last.days)) = 1

\* C19: a step that changes the analytics collection is either a
\* log_video_request that appends one event, stamped with the time of the
\* call, and leaves the stored events as they were, or a
\* cleanup_old_analytics; log_video_request, the store answering, appends
\* exactly one event; cleanup_old_analytics(days), the store answering, keeps
\* in their order exactly the events with timestamp >= now - days, unchanged,
\* and removes the others, and returns the number of events it removed.
C19_AppendOnlyButCleanup ==
    [][LET called == <<analytics, ana_last>>' # <<analytics, ana_last>>
           cutoff == db_now - Days(ana_last'.days)
           appended ==
               /\ Len(analytics') = Len(analytics) + 1
               /\ \A i \in 1..Len(analytics) : analytics'[i] = analytics[i]
               /\ analytics'[Len(analytics')].timestamp = db_now
           cleaned ==
               /\ analytics' = SelectSeq(analytics, LAMBDA e : e.timestamp >= cutoff)
               /\ ana_last'.ret = Cardinality({i \in 1..Len(analytics) :
                                                  analytics[i].timestamp < cutoff})
               /\ ana_last'.ret = Len(analytics) - Len(analytics')
       IN  /\ analytics' # analytics =>
                \/ ana_last'.op = "log_video_request" /\ appended
                \/ ana_last'.op = "cleanup_old_analytics" /\ cleaned
           /\ (called /\ ana_last'.op = "log_video_request" /\ ana_last'.up) => appended
           /\ (called /\ ana_last'.op = "cleanup_old_analytics" /\ ana_last'.up) => cleaned
      ]_vars

\* a cleanup removed one event and kept one whose timestamp is the cutoff
C19_Witness ==
    /\ ana_last.op = "cleanup_old_analytics"
    /\ ana_last.up
    /\ ana_last.ret = 1
    /\ Len(analytics) = 1
    /\ analytics[1].timestamp = db_now - Days(ana_last.days)

\* ----------------------------------------------------- Stats: properties

\* the counts of a snapshot
CountKeys == {"total_users", "total_videos", "adult_videos", "movie_videos",
              "series_videos", "new_users_today", "new_videos_today"}

\* C20: a get_stats call in which a query raised returns a snapshot whose
\* every count is 0; a snapshot is either that one or holds every count of
\* the store, never some counts of the store and zeros for the rest.
C20_ZeroSnapshotOnFailure ==
    stats_last.op = "get_stats" =>
        LET got == stats_last.stats
            counts == Snapshot(users, videos, db_now, <<>>)
        IN  /\ CountKeys \subseteq DOMAIN got
            /\ stats_last.fail_at # 0 => \A k \in CountKeys : got[k] = 0
            /\ \/ \A k \in CountKeys : got[k] = 0
               \/ \A k \in CountKeys : got[k] = counts[k]

\* the last query raised, users and videos being stored: every count is 0
C20_Witness ==
    /\ stats_last.op = "get_stats"
    /\ stats_last.fail_at = StatQueries
    /\ TotalUsers(users) > 0
    /\ TotalVideos(videos) > 0
    /\ stats_last.stats.total_users = 0
    /\ stats_last.stats.new_videos_today = 0

\* ------------------------------------------- Catalog: properties, continued

\* C25: delete_video returns True exactly when the document of the id went
\* from 'active' to 'deleted' in the call; on the id of a soft-deleted
\* document it leaves deleted_at as the first delete set it; on an id that no
\* document holds it returns False and leaves the collection as it was.
C25_DeleteReportsChange ==
    [][(n_ops' = n_ops + 1 /\ cat_last'.op = "delete_video") =>
        LET i == FindFirst(videos, cat_last'.id)
        IN  IF i = 0
            THEN ~cat_last'.ok /\ videos' = videos
            ELSE /\ cat_last'.ok <=>
                        (videos[i].status = "active" /\ videos'[i].status = "deleted")
                 /\ videos[i].status = "deleted" =>
                        videos'[i].deleted_at = videos[i].deleted_at
      ]_vars


\* --------------------------------------------------- Lookups: properties

\* C21: no lookup or telemetry method surfaces a store failure: increment_view,
\* increment_download and log_video_request return normally, and when the
\* store call fails get_video and get_user return None, get_all_videos,
\* search_videos and get_all_users return [].
C21_FailuresAbsorbed ==
    look_last.op # "none" =>
        /\ ~look_last.raised
        /\ ~look_last.up =>
              /\ look_last.video = NoDoc
              /\ look_last.user = NoUserDoc
              /\ look_last.videos = <<>>
              /\ look_last.users = <<>>

\* a lookup of a stored document and a telemetry call were made while the
\* store did not answer
C21_Witness ==
    /\ ~look_last.up
    /\ \/ look_last.op = "get_video" /\ FindFirstActive(videos, look_last.id) # 0
       \/ look_last.op = "increment_view" /\ FindFirst(videos, look_last.id) # 0

\* C22: get_all_videos(category, limit) returns only active records, only
\* of the given category when one is given, newest added_at first, at most
\* `limit` of them, and they are the `limit` newest matching records.
C22_ListNewestActive ==
    (look_last.op = "get_all_videos" /\ look_last.up) =>
        LET r == look_last.videos
            matching == {videos[i] : i \in {j \in 1..Len(videos) :
                            /\ videos[j].status = "active"
                            /\ (look_last.category # NoCategory =>
                                   CategoryOf(videos[j].video_id) = look_last.category)}}
            returned == {r[i] : i \in 1..Len(r)}
        IN  /\ returned \subseteq matching
            /\ \A i \in 1..(Len(r) - 1) : r[i].added_at >= r[i + 1].added_at
            /\ Len(r) <= look_last.limit
            /\ Cardinality(returned) = Len(r)
            /\ Len(r) = look_last.limit \/ returned = matching
            /\ \A d \in matching \ returned :
                  \A i \in 1..Len(r) : d.added_at <= r[i].added_at


\* ------------------------------------------------ Classifier: properties
\* the text holds an adult keyword, in any case
HasAdultKeyword(t) ==
    \E keyword \in adult_keywords : \E i \in 1..Len(t) :
        /\ i + Len(keyword) - 1 <= Len(t)
        /\ \A k \in 1..Len(keyword) : LowerChar(t[i + k - 1]) = keyword[k]

\* the text holds a series marker: S<digits>E<digits>, or one of the words
\* season, episode, ep and the two Bengali ones followed by a number
HasSeriesMarker(t) == SeriesMatch(Lower(t))

\* C23: detect_category gives 'adult' for every text that holds an adult
\* keyword, also when it holds a series marker; 'series' for a text that holds
\* a series marker and no adult keyword; 'movie' for an empty or absent text
\* and for a text that holds neither.
C23_AdultBeforeSeries ==
    dc_last # "none" =>
        IF dc_text = NoneText \/ dc_text = <<>> THEN dc_last = "movie"
        ELSE IF HasAdultKeyword(dc_text) THEN dc_last = "adult"
        ELSE IF HasSeriesMarker(dc_text) THEN dc_last = "series"
        ELSE dc_last = "movie"

\* a caption holding both an adult keyword and a series marker was classified
C23_Witness ==
    /\ dc_last = "adult"
    /\ HasAdultKeyword(dc_text) /\ HasSeriesMarker(dc_text)


\* --------------------------------------------------- Connect: properties
\* the delays connect has slept for are the first of 2, 4
BackoffDelays ==
    /\ Len(conn.slept) <= 2
    /\ Len(conn.slept) >= 1 => conn.slept[1] = 2
    /\ Len(conn.slept) >= 2 => conn.slept[2] = 4

\* C24: connect makes at most three attempts; it sleeps 2 and then 4 seconds
\* between failed attempts and not after the last one; it returns at the
\* first attempt that succeeds and raises after the third failure; and every
\* call of it returns or raises.
C24_BoundedRetry ==
    /\ [](/\ conn.attempt <= 2
          /\ Len(conn.errors) <= 3
          /\ BackoffDelays
          /\ conn.pc = "returned" =>
                /\ Len(conn.errors) = conn.attempt
                /\ Len(conn.slept) = conn.attempt
          /\ conn.pc = "raised" =>
                /\ Len(conn.errors) = 3
                /\ conn.slept = <<2, 4>>
          /\ Len(conn.errors) = 3 => conn.pc \in {"except", "raised"})
    /\ <>(conn.pc \in {"returned", "raised"})

\* connect has raised after three failed attempts, the ping having failed in
\* the last one
C24_Witness ==
    /\ conn.pc = "raised"
    /\ conn.slept = <<2, 4>>
    /\ conn.errors[3] \in PingErrors


\* ------------------------------------------ Stats: properties, continued

\* C26: every snapshot get_stats returns is consistent: the adult, movie and
\* series counts sum to at most total_videos, and new_videos_today is at most
\* total_videos, also when add_video and delete_video calls are applied
\* between the queries of the call.
C26_ConsistentSnapshot ==
    stats_last.op = "get_stats" =>
        /\ stats_last.stats.adult_videos + stats_last.stats.movie_videos
               + stats_last.stats.series_videos <= stats_last.stats.total_videos
        /\ stats_last.stats.new_videos_today <= stats_last.stats.total_videos

====
